---- MODULE Spec2Model ----
(***************************************************************************)
(* Chair views of the conference site (wwwdccn/chair/views.py).            *)
(*                                                                         *)
(* The state is the stored data the views read (submissions, their         *)
(* authors, the users' profiles), the request taken up and the response    *)
(* to it.  Every view is one action: the handler runs from start to        *)
(* finish in one call, and a behaviour is one request over some stored     *)
(* data.                                                                   *)
(* The views never write to the data.  Requests are GET requests of a      *)
(* chair of the conference, which the decorators chair_required and        *)
(* require_GET pass on to the view.                                        *)
(*                                                                         *)
(* Text is a sequence of tokens <<kind, n>>; the empty string is << >>.    *)
(* A CSV row is a sequence of cells and a cell is a text.                  *)
(***************************************************************************)
EXTENDS Integers, Sequences, FiniteSets, TLC

NumConf == 2
NumSub == 2
NumUsers == 2
NumCountries == 2

ConfIds == 1..NumConf
SubIds == 1..NumSub
UserIds == 1..NumUsers
Countries == 1..NumCountries

\* Primary keys a request may name: the stored ones and one that is not stored.
ConfPks == 1..(NumConf + 1)
UserPks == 1..(NumUsers + 1)

None == 0
NoProfile == 0

VARIABLES submission, authors, profile, request, response

vars == <<submission, authors, profile, request, response>>

----------------------------------------------------------------------------
\* Text

EmptyStr == << >>

Lit(s) == << <<s, 0>> >>

\* str(n), as csv.writer formats an integer cell
Str(n) == << <<"int", n>> >>

RECURSIVE Join(_, _)
\* sep.join(strs)
Join(strs, sep) ==
    IF strs = << >> THEN EmptyStr
    ELSE IF Len(strs) = 1 THEN strs[1]
    ELSE strs[1] \o sep \o Join(Tail(strs), sep)

CommaSpace == Lit(", ")

----------------------------------------------------------------------------
\* Data layer

\* the sequences that list every element of S once
Orders(S) ==
    {q \in [1..Cardinality(S) -> S] : \A i, j \in 1..Cardinality(S) : q[i] = q[j] => i = j}

\* The orders in which a query without order_by may return the rows S.
FetchOrders(S) == Orders(S)

\* The orders in which a Python set may iterate over the texts S, which
\* depend on the string hashing of the process.
HashOrders(S) == Orders(S)

RECURSIVE InsertByPk(_, _)
InsertByPk(x, sorted) ==
    IF sorted = << >> THEN <<x>>
    ELSE IF x <= sorted[1] THEN <<x>> \o sorted
    ELSE <<sorted[1]>> \o InsertByPk(x, Tail(sorted))

RECURSIVE OrderByPk(_)
\* queryset.order_by('pk')
OrderByPk(q) ==
    IF q = << >> THEN << >> ELSE InsertByPk(q[1], OrderByPk(Tail(q)))

Range(q) == {q[i] : i \in 1..Len(q)}

\* conference.submission_set
SubmissionSet(pk) == {s \in SubIds : submission[s].conference = pk}

\* the users sub.authors links to the submission
Authors(s) == Range(authors[s])

HasProfile(u) == profile[u] # NoProfile

\* profile.get_full_name()
FullName(u) == << <<"name", u>> >>

\* profile.get_country_display()
CountryDisplay(u) == << <<"country", profile[u]>> >>

Email(u) == << <<"email", u>> >>

Title(s) == << <<"title", s>> >>

----------------------------------------------------------------------------
\* Requests and responses

Request(view, pk, user_pk, query) ==
    [view |-> view, pk |-> pk, user_pk |-> user_pk, query |-> query]

NoQuery == [kind |-> "empty", keep |-> {}]

NoRequest == Request("none", None, None, NoQuery)

\* get_object_or_404 found no row: Http404
NotFound ==
    [status |-> 404, content_type |-> "text/html", filename |-> << >>,
     rows |-> << >>, listing |-> << >>, member |-> None]

\* an exception left the view: the framework answers 500 and the response
\* the view was building is dropped
ServerError ==
    [status |-> 500, content_type |-> "text/html", filename |-> << >>,
     rows |-> << >>, listing |-> << >>, member |-> None]

Rendered(listing, member) ==
    [status |-> 200, content_type |-> "text/html", filename |-> << >>,
     rows |-> << >>, listing |-> listing, member |-> member]

\* datetime.now().strftime("%Y%m%d_%H%M")
Timestamps == {"20190513_1204", "20190513_1205"}

\* the attachment name in Content-Disposition
Filename(entity, timestamp) == Lit(entity) \o Lit("-") \o Lit(timestamp) \o Lit(".csv")

CsvResponse(filename, rows) ==
    [status |-> 200, content_type |-> "text/csv", filename |-> filename,
     rows |-> rows, listing |-> << >>, member |-> None]

NoResponse ==
    [status |-> 0, content_type |-> "", filename |-> << >>,
     rows |-> << >>, listing |-> << >>, member |-> None]

----------------------------------------------------------------------------
\* get_submissions_csv

SubmissionsHeader ==
    <<Lit("#"), Lit("ID"), Lit("TITLE"), Lit("AUTHORS"), Lit("COUNTRY"),
      Lit("CORR_AUTHOR"), Lit("CORR_EMAIL"), Lit("LANGUAGE"), Lit("LINK")>>

\* sub.authors.all().  The submission keeps its authors as a list.
AuthorsAll(s) == authors[s]

\* iteration over the Python set S of texts, in the order h of the hashes
SetIter(S, h) == SelectSeq(h, LAMBDA x : x \in S)

AuthorsCell(s) ==
    LET all == AuthorsAll(s)
    IN  Join([i \in 1..Len(all) |-> FullName(all[i])], CommaSpace)

\* CountriesCell with a list in place of the set: one label per author
CountriesCell_PerAuthor(s, h) ==
    LET all == AuthorsAll(s)
    IN  Join([i \in 1..Len(all) |-> CountryDisplay(all[i])], CommaSpace)

CountriesCell(s, h) ==
    Join(SetIter({CountryDisplay(u) : u \in Authors(s)}, h), CommaSpace)

CorrAuthor(s) ==
    LET owner == submission[s].created_by
    IN  IF owner # None THEN FullName(owner) ELSE EmptyStr

CorrEmail(s) ==
    LET owner == submission[s].created_by
    IN  IF owner # None THEN Email(owner) ELSE EmptyStr

\* reverse(name, args=[arg]): the path of the named route
Reverse(name, arg) == Lit(name) \o Str(arg)

\* request.build_absolute_uri(path)
BuildAbsoluteUri(path) == Lit("http://host") \o path

\* LinkCell without the test of review_manuscript
LinkCell_Unguarded(s) ==
    BuildAbsoluteUri(Reverse("submissions:download-manuscript", s))

LinkCell(s) ==
    IF submission[s].review_manuscript
    THEN BuildAbsoluteUri(Reverse("submissions:download-manuscript", s))
    ELSE EmptyStr

StypeCell(s) ==
    IF submission[s].stype # None THEN << <<"language", submission[s].stype>> >> ELSE EmptyStr

\* a.user.profile and owner.profile raise RelatedObjectDoesNotExist when the
\* user has no profile
SubmissionRowRaises(s) ==
    \/ \E u \in Authors(s) : ~HasProfile(u)
    \/ submission[s].created_by # None /\ ~HasProfile(submission[s].created_by)

SubmissionRow(number, s, h) ==
    <<Str(number), Str(s), Title(s), AuthorsCell(s), CountriesCell(s, h),
      CorrAuthor(s), CorrEmail(s), StypeCell(s), LinkCell(s)>>

RECURSIVE SubmissionRows(_, _, _)
\* the loop over submissions, number counting from its start value
SubmissionRows(subs, number, h) ==
    IF subs = << >> THEN << >>
    ELSE <<SubmissionRow(number, subs[1], h)>>
            \o SubmissionRows(Tail(subs), number + 1, h)

SubmissionsCsv(pk, now, fo, h) ==
    IF pk \notin ConfIds THEN NotFound
    ELSE LET submissions == OrderByPk(fo)
         IN  IF \E s \in Range(submissions) : SubmissionRowRaises(s)
             THEN ServerError
             ELSE CsvResponse(Filename("submissions", now),
                      <<SubmissionsHeader>> \o SubmissionRows(submissions, 1, h))

\* the worker takes up a request when it is serving none
Idle == request = NoRequest

SubmissionsCsvRequest(pk) ==
    \E now \in Timestamps, fo \in FetchOrders(SubmissionSet(pk)),
       h \in HashOrders({<< <<"country", c>> >> : c \in Countries}) :
        /\ request' = Request("get_submissions_csv", pk, None, NoQuery)
        /\ response' = SubmissionsCsv(pk, now, fo, h)
        /\ UNCHANGED <<submission, authors, profile>>

get_submissions_csv == Idle /\ \E pk \in ConfPks : SubmissionsCsvRequest(pk)

----------------------------------------------------------------------------
\* get_authors_csv

AuthorsHeader ==
    <<Lit("#"), Lit("ID"), Lit("FULL_NAME"), Lit("FULL_NAME_RUS"), Lit("DEGREE"),
      Lit("COUNTRY"), Lit("CITY"), Lit("AFFILIATION"), Lit("ROLE"), Lit("EMAIL")>>

\* ConferenceAuthorships without the conference in the filter
ConferenceAuthorships_AnyConference(pk, u) == {s \in SubIds : u \in Authors(s)}

\* user.authorship.filter(submission__conference=conference)
ConferenceAuthorships(pk, u) ==
    {s \in SubIds : u \in Authors(s) /\ submission[s].conference = pk}

\* conferences.helpers.is_author(conference, user)
is_author(pk, u) == Cardinality(ConferenceAuthorships(pk, u)) > 0

\* a field of the profile that the views copy into a cell
ProfileField(field, u) == << <<field, u>> >>

AuthorRow(number, u) ==
    <<Str(number), Str(u), FullName(u), ProfileField("name_rus", u),
      ProfileField("degree", u), CountryDisplay(u), ProfileField("city", u),
      ProfileField("affiliation", u), ProfileField("role", u), Email(u)>>

RECURSIVE AuthorRows(_, _)
AuthorRows(users, number) ==
    IF users = << >> THEN << >>
    ELSE <<AuthorRow(number, users[1])>> \o AuthorRows(Tail(users), number + 1)

AuthorsCsv(pk, now, fo) ==
    IF pk \notin ConfIds THEN NotFound
    ELSE LET users == SelectSeq(OrderByPk(fo), LAMBDA u : is_author(pk, u))
         IN  IF \E u \in Range(users) : ~HasProfile(u)
             THEN ServerError
             ELSE CsvResponse(Filename("authors", now),
                      <<AuthorsHeader>> \o AuthorRows(users, 1))

AuthorsCsvRequest(pk) ==
    \E now \in Timestamps, fo \in FetchOrders(UserIds) :
        /\ request' = Request("get_authors_csv", pk, None, NoQuery)
        /\ response' = AuthorsCsv(pk, now, fo)
        /\ UNCHANGED <<submission, authors, profile>>

get_authors_csv == Idle /\ \E pk \in ConfPks : AuthorsCsvRequest(pk)

----------------------------------------------------------------------------
\* dashboard, user_details

Dashboard(pk) ==
    IF pk \notin ConfIds THEN NotFound ELSE Rendered(<< >>, None)

dashboard ==
    /\ Idle
    /\ \E pk \in ConfPks :
        /\ request' = Request("dashboard", pk, None, NoQuery)
        /\ response' = Dashboard(pk)
    /\ UNCHANGED <<submission, authors, profile>>

\* UserDetails without the lookup of the user
UserDetails_NoUserLookup(pk, user_pk) ==
    IF pk \notin ConfIds THEN NotFound ELSE Rendered(<< >>, user_pk)

UserDetails(pk, user_pk) ==
    IF pk \notin ConfIds THEN NotFound
    ELSE IF user_pk \notin UserIds THEN NotFound
    ELSE Rendered(<< >>, user_pk)

user_details ==
    /\ Idle
    /\ \E pk \in ConfPks, user_pk \in UserPks :
        /\ request' = Request("user_details", pk, user_pk, NoQuery)
        /\ response' = UserDetails(pk, user_pk)
    /\ UNCHANGED <<submission, authors, profile>>

----------------------------------------------------------------------------
\* Filter forms (chair.forms)

\* The query parameters of a list request over the records S: parameters that
\* do not validate and select nothing, no parameters at all, or terms that
\* select the records keep.
Queries(S) ==
    {[kind |-> "invalid", keep |-> {}], [kind |-> "empty", keep |-> S]}
        \cup {[kind |-> "terms", keep |-> K] : K \in SUBSET S}

\* form.is_valid()
is_valid(q) == q.kind # "invalid"

\* form.apply(queryset)
apply(q, records) == SelectSeq(records, LAMBDA r : r \in q.keep)

----------------------------------------------------------------------------
\* submissions_list

\* Profile.objects.filter(user__authorship__submission=sub).values(...): the
\* profiles of the authors, in the order ao the profile table returns them
AuthorProfiles(s, ao) == SelectSeq(ao, LAMBDA u : u \in Authors(s) /\ HasProfile(u))

\* sub.warnings(), sub.abstract and sub.status are read from the submission
\* and shown as they are.
SubmissionEntry(s, ao) ==
    LET auth_prs == AuthorProfiles(s, ao)
    IN  [pk |-> s,
         title |-> Title(s),
         authors |-> [i \in 1..Len(auth_prs) |->
                         [name |-> FullName(auth_prs[i]), user_pk |-> auth_prs[i]]],
         authors_display |->
             Join([i \in 1..Len(auth_prs) |-> FullName(auth_prs[i])], CommaSpace)]

SubmissionsList(pk, q, fo, ao) ==
    IF pk \notin ConfIds THEN NotFound
    ELSE LET submissions == IF is_valid(q) THEN apply(q, fo) ELSE fo
         IN  Rendered([i \in 1..Len(submissions) |-> SubmissionEntry(submissions[i], ao)], None)

submissions_list ==
    /\ Idle
    /\ \E pk \in ConfPks, q \in Queries(SubIds) :
       \E fo \in FetchOrders(SubmissionSet(pk)), ao \in FetchOrders(UserIds) :
            /\ request' = Request("submissions_list", pk, None, q)
            /\ response' = SubmissionsList(pk, q, fo, ao)
    /\ UNCHANGED <<submission, authors, profile>>

----------------------------------------------------------------------------
\* users_list

UserEntry(pk, u) ==
    LET authorships == ConferenceAuthorships(pk, u)
    IN  [pk |-> u,
         name |-> FullName(u),
         country |-> profile[u],
         num_submissions |-> Cardinality(authorships),
         is_participant |-> Cardinality(authorships) > 0]

UsersList(pk, q, fo) ==
    IF pk \notin ConfIds THEN NotFound
    ELSE LET users == IF is_valid(q) THEN apply(q, fo) ELSE fo
         IN  IF \E u \in Range(users) : ~HasProfile(u)
             THEN ServerError
             ELSE Rendered([i \in 1..Len(users) |-> UserEntry(pk, users[i])], None)

users_list ==
    /\ Idle
    /\ \E pk \in ConfPks, q \in Queries(UserIds), fo \in FetchOrders(UserIds) :
            /\ request' = Request("users_list", pk, None, q)
            /\ response' = UsersList(pk, q, fo)
    /\ UNCHANGED <<submission, authors, profile>>

----------------------------------------------------------------------------
\* Stored data

SubmissionRecords ==
    [conference : ConfIds, created_by : UserIds \cup {None},
     review_manuscript : BOOLEAN, stype : {None, 1}]

\* Conferences and countries are named in the order the stored rows first use
\* them.  Every other data set is one of these with conferences or countries
\* renamed, and the views only compare these names for equality.
NamedInOrder(f, n, unused) ==
    \A i \in 1..n :
        f[i] \in unused \/ f[i] = 1 \/ \E j \in 1..(i - 1) : f[j] \notin unused /\ f[j] + 1 >= f[i]

Init ==
    /\ submission \in [SubIds -> SubmissionRecords]
    /\ NamedInOrder([s \in SubIds |-> submission[s].conference], NumSub, {})
    /\ authors \in [SubIds -> UNION {Orders(U) : U \in SUBSET UserIds}]
    /\ profile \in [UserIds -> Countries \cup {NoProfile}]
    /\ NamedInOrder(profile, NumUsers, {NoProfile})
    /\ request = NoRequest
    /\ response = NoResponse

Next ==
    dashboard \/ submissions_list \/ users_list \/ user_details
        \/ get_submissions_csv \/ get_authors_csv

Spec == Init /\ [][Next]_vars

\* The chair downloads the same export again over the same stored data.
get_submissions_csv_again ==
    /\ request.view = "get_submissions_csv"
    /\ SubmissionsCsvRequest(request.pk)

NextRuns == Next \/ get_submissions_csv_again

SpecRuns == Init /\ [][NextRuns]_vars

----------------------------------------------------------------------------
\* Reading a response

\* user u is linked to submission s as an author
Wrote(u, s) == \E i \in 1..Len(authors[s]) : authors[s][i] = u

\* the integer a cell written by Str holds
CellInt(cell) == cell[1][2]

\* the texts a cell lists between its ", " separators
Items(cell) == SelectSeq(cell, LAMBDA tok : <<tok>> # CommaSpace)

DataRows == SubSeq(response.rows, 2, Len(response.rows))

Served(view) == request.view = view /\ request.pk \in ConfIds

Exported(view) == Served(view) /\ response.status = 200

Ascending(ids) == \A k \in 1..(Len(ids) - 1) : ids[k] < ids[k + 1]

Numbered(rows) == \A k \in 1..Len(rows) : rows[k][1] = Str(k)

\* C1: a submissions export of a conference with N submissions has N+1 rows:
\* the header, then one row per submission of that conference and of no other,
\* in strictly ascending order of submission id, the k-th numbered k.
C1_RowPerSubmission ==
    Served("get_submissions_csv") =>
        LET N == Cardinality({s \in SubIds : submission[s].conference = request.pk})
        IN  /\ Len(response.rows) = N + 1
            /\ response.rows[1] = SubmissionsHeader
            /\ {CellInt(DataRows[k][2]) : k \in 1..N}
                   = {s \in SubIds : submission[s].conference = request.pk}
            /\ Ascending([k \in 1..N |-> CellInt(DataRows[k][2])])
            /\ Numbered(DataRows)

\* C1 holds of every export that completes.
C1_WhenExported == response.status = 200 => C1_RowPerSubmission

\* C2: the authors export never raises, also when users have no profile: it
\* completes, and a user has a row exactly when is_author holds of the user.
C2_NoErrorWithoutProfile ==
    Served("get_authors_csv") =>
        /\ response.status = 200
        /\ \A u \in UserIds :
               (\E k \in 1..Len(DataRows) : CellInt(DataRows[k][2]) = u)
                   <=> (\E s \in SubIds :
                           Wrote(u, s) /\ submission[s].conference = request.pk)

\* C3: the submissions export does not raise, and the row of a submission
\* has empty CORR_AUTHOR and CORR_EMAIL cells when the submission has no
\* creator and the creator's full name and email when it has one.
C3_CorrespondingAuthor ==
    Served("get_submissions_csv") =>
        /\ response.status = 200
        /\ \A s \in SubIds : submission[s].conference = request.pk =>
               \E k \in 1..Len(DataRows) :
                   /\ CellInt(DataRows[k][2]) = s
                   /\ LET owner == submission[s].created_by
                      IN  IF owner = None
                          THEN DataRows[k][6] = EmptyStr /\ DataRows[k][7] = EmptyStr
                          ELSE /\ DataRows[k][6] = << <<"name", owner>> >>
                               /\ DataRows[k][7] = << <<"email", owner>> >>

\* C3 holds of every export that completes.
C3_WhenExported == response.status = 200 => C3_CorrespondingAuthor

\* the primary keys a listing shows
ListedPks == {response.listing[i].pk : i \in 1..Len(response.listing)}

\* C4: a list request whose filter is invalid or empty raises no error and
\* lists every submission of the conference, respectively every user.
C4_InvalidFilterIgnored ==
    /\ (Served("submissions_list") /\ request.query.kind \in {"invalid", "empty"}) =>
           /\ response.status = 200
           /\ ListedPks = {s \in SubIds : submission[s].conference = request.pk}
           /\ Len(response.listing) = Cardinality(ListedPks)
    /\ (Served("users_list") /\ request.query.kind \in {"invalid", "empty"}) =>
           /\ response.status = 200
           /\ ListedPks = UserIds
           /\ Len(response.listing) = Cardinality(ListedPks)

\* C4 holds of submissions_list, and of every users_list that completes.
C4_WhenListed ==
    (Served("submissions_list") \/ response.status = 200) => C4_InvalidFilterIgnored

\* C5: every user users_list shows has num_submissions equal to the number of
\* the user's authorships on submissions of the requested conference, and is
\* a participant exactly when that number is at least 1.
C5_NumSubmissions ==
    Exported("users_list") =>
        \A i \in 1..Len(response.listing) :
            LET e == response.listing[i]
                n == Cardinality({s \in SubIds :
                         Wrote(e.pk, s) /\ submission[s].conference = request.pk})
            IN  e.num_submissions = n /\ (e.is_participant <=> n >= 1)

\* a listed user who also is an author in another conference, and a listed
\* user with two submissions in this one
C5_Witness ==
    /\ Exported("users_list")
    /\ \E i \in 1..Len(response.listing) :
           /\ response.listing[i].num_submissions = 1
           /\ \E s \in SubIds : /\ Wrote(response.listing[i].pk, s)
                                /\ submission[s].conference # request.pk
    /\ \E i \in 1..Len(response.listing) : ~response.listing[i].is_participant

\* the integers a text names
IntsIn(text) == {text[i][2] : i \in {j \in 1..Len(text) : text[j][1] = "int"}}

\* C6: the LINK cell of a submission's row is the empty string when the
\* submission has no manuscript, and otherwise an absolute URL of the
\* download route that names this submission's id and no other.
C6_Link ==
    Exported("get_submissions_csv") =>
        \A k \in 1..Len(DataRows) :
            LET s == CellInt(DataRows[k][2])
                link == DataRows[k][9]
            IN  IF submission[s].review_manuscript
                THEN /\ link # EmptyStr
                     /\ link[1] = <<"http://host", 0>>
                     /\ link[2] = <<"submissions:download-manuscript", 0>>
                     /\ IntsIn(link) = {s}
                ELSE link = EmptyStr

\* an export with a row that links a manuscript and a row that links none
C6_Witness ==
    /\ Exported("get_submissions_csv")
    /\ \E k \in 1..Len(DataRows) : DataRows[k][9] = EmptyStr
    /\ \E k \in 1..Len(DataRows) : DataRows[k][9] # EmptyStr

\* C7: the same export request over the same stored data gives the same
\* rows with the same cells.
C7_Deterministic ==
    [][(request.view = "get_submissions_csv" /\ request' = request)
           => response'.rows = response.rows]_vars

\* C8: the authors export has the header, then one row per user of whom
\* is_author holds and none for other users, in strictly ascending order of
\* user id, the k-th numbered k.
C8_RowPerAuthor ==
    Served("get_authors_csv") =>
        LET writers == {u \in UserIds : \E s \in SubIds :
                           Wrote(u, s) /\ submission[s].conference = request.pk}
            N == Cardinality(writers)
        IN  /\ Len(response.rows) = N + 1
            /\ response.rows[1] = AuthorsHeader
            /\ {CellInt(DataRows[k][2]) : k \in 1..N} = writers
            /\ Ascending([k \in 1..N |-> CellInt(DataRows[k][2])])
            /\ Numbered(DataRows)

\* C8 holds of every export that completes.
C8_WhenExported == response.status = 200 => C8_RowPerAuthor

\* C9: a request that names a conference that is not stored ends in not
\* found with no listing and no rows, and so does user_details for a stored
\* conference and a user that is not stored.
C9_NotFound ==
    /\ (request.view # "none" /\ request.pk \notin ConfIds) =>
           /\ response.status = 404
           /\ response.rows = << >>
           /\ response.listing = << >>
           /\ response.member = None
    /\ (request.view = "user_details" /\ request.user_pk \notin UserIds) =>
           response.status = 404 /\ response.member = None

\* user_details for a stored conference and a user that is not stored
C9_Witness ==
    /\ request.view = "user_details"
    /\ request.pk \in ConfIds
    /\ request.user_pk \notin UserIds
    /\ response.status = 404

\* C10: the COUNTRY cell of a submission's row lists the country labels of
\* the submission's authors, each once, and the AUTHORS cell lists one full
\* name for each author.
C10_Countries ==
    Exported("get_submissions_csv") =>
        \A k \in 1..Len(DataRows) :
            LET s == CellInt(DataRows[k][2])
                writers == {u \in UserIds : Wrote(u, s)}
                names == Items(DataRows[k][4])
                countries == Items(DataRows[k][5])
            IN  /\ {countries[i] : i \in 1..Len(countries)}
                       = {<<"country", profile[u]>> : u \in writers}
                /\ \A i, j \in 1..Len(countries) : countries[i] = countries[j] => i = j
                /\ Len(names) = Cardinality(writers)
                /\ {names[i] : i \in 1..Len(names)} = {<<"name", u>> : u \in writers}
                /\ Len(DataRows[k][4]) = (IF writers = {} THEN 0 ELSE 2 * Len(names) - 1)
                /\ Len(DataRows[k][5]) = (IF writers = {} THEN 0 ELSE 2 * Len(countries) - 1)

\* a row of a submission whose two authors share a country
C10_Witness ==
    /\ Exported("get_submissions_csv")
    /\ \E k \in 1..Len(DataRows) :
           Len(Items(DataRows[k][4])) = 2 /\ Len(Items(DataRows[k][5])) = 1

====
